---------------------------- MODULE Spec2Model ----------------------------
(***************************************************************************)
(* EV1527 RF remote decoder (Sources/ev1527.h).                            *)
(*                                                                         *)
(* The header gives the timing macros (EV_pulseIsValid, EV_PrembleCheck,   *)
(* EV_bitCheck), the protocol constants and the result union ev1527_T.     *)
(* The edge interrupt handler that applies them is not part of the header; *)
(* it is modelled from the decoder description (spec.md section 4.1) as    *)
(* onPulsePair.                                                            *)
(*                                                                         *)
(* Tick durations are Timer1 readings (EV_Timer_Value = TCNT1), 16-bit     *)
(* unsigned values.  On the AVR target int is 16 bits wide, so the sums    *)
(* and products of the macros are taken modulo 2^16.  EV_bitCheck compares *)
(* in floating point (1.5 * _tickLow), which is exact for 16-bit values.   *)
(***************************************************************************)
EXTENDS Integers, Naturals, Sequences, FiniteSets, TLC

(***************************************************************************)
(* Program constants                                                       *)
(***************************************************************************)
\* off by one: a frame is taken to be complete after 23 bits
EV_maxIndexData_short == 23 - 1

\* off by one the other way: a 25th bit is waited for
EV_maxIndexData_long == 23 + 1

EV_maxIndexData == 23

HPL_min == 450

\* a dropped digit in the timeout threshold
HPL_Max_typo == 8500 \div 10

HPL_Max == 8500

\* Width of unsigned int and of TCNT1 on the AVR target.
TickBits == 16

TickModulus == 2 ^ TickBits

\* unsigned 16-bit arithmetic of the target
U16(x) == x % TickModulus

(***************************************************************************)
(* Validation macros                                                       *)
(***************************************************************************)
EV_pulseIsValid(_tickLow, _tickHigh) ==
    /\ U16(_tickLow + _tickHigh) > HPL_min
    /\ U16(_tickLow + _tickHigh) < HPL_Max

\* exclusive instead of inclusive ends of the preamble window
EV_PrembleCheck_exclusive(_tickLow, _tickHigh) ==
    /\ _tickLow > U16(25 * _tickHigh)
    /\ _tickLow < U16(40 * _tickHigh)

EV_PrembleCheck(_tickLow, _tickHigh) ==
    /\ _tickLow >= U16(25 * _tickHigh)
    /\ _tickLow <= U16(40 * _tickHigh)

\* the two durations taken the wrong way round
EV_bitCheck_swapped(_tickLow, _tickHigh) ==
    IF 2 * _tickLow >= 3 * _tickHigh THEN 1 ELSE 0

\* strict instead of inclusive threshold
EV_bitCheck_strict(_tickLow, _tickHigh) ==
    IF 2 * _tickHigh > 3 * _tickLow THEN 1 ELSE 0

\* _tickHigh >= 1.5*_tickLow, evaluated in floating point: no wrap-around.
EV_bitCheck(_tickLow, _tickHigh) ==
    IF 2 * _tickHigh >= 3 * _tickLow THEN 1 ELSE 0

(***************************************************************************)
(* ev1527_T: a 32-bit word with bit-fields allocated from the least        *)
(* significant bit: Address : 20, Keys : 4, Detect : 1, Reserve : 7.       *)
(***************************************************************************)
AddressWidth == 20

KeysWidth == 4

DetectWidth == 1

KeysShift == 2 ^ AddressWidth

DetectShift == 2 ^ (AddressWidth + KeysWidth)

ReserveShift == 2 ^ (AddressWidth + KeysWidth + DetectWidth)

\* reads of the bit-fields of rawValue w
BitsAddress(w) == w % KeysShift

BitsKeys(w) == (w \div KeysShift) % (2 ^ KeysWidth)

BitsDetect(w) == (w \div DetectShift) % (2 ^ DetectWidth)

\* bitwise or of two unsigned values
RECURSIVE BitOr(_, _)
BitOr(a, b) ==
    IF a = 0 THEN b
    ELSE IF b = 0 THEN a
    ELSE (IF a % 2 = 1 \/ b % 2 = 1 THEN 1 ELSE 0) + 2 * BitOr(a \div 2, b \div 2)

\* the address or-ed into the word: the bits of the previous frame stay set
SetAddress_or(w, v) ==
    (w - BitsAddress(w)) + BitOr(BitsAddress(w), v % (2 ^ AddressWidth))

\* the key written into the low 4 bits of the word
SetKeys_low(w, v) == (w - (w % (2 ^ KeysWidth))) + (v % (2 ^ KeysWidth))

\* writes of the bit-fields: the value is truncated to the field's width and
\* the other fields are kept
SetAddress(w, v) == (w - BitsAddress(w)) + (v % (2 ^ AddressWidth))

SetKeys(w, v) == (w - BitsKeys(w) * KeysShift) + (v % (2 ^ KeysWidth)) * KeysShift

\* the flag written by |=: it can be set but never cleared
SetDetect_or(w, v) ==
    IF v % 2 = 1 /\ BitsDetect(w) = 0 THEN w + DetectShift ELSE w

\* the flag written by exclusive-or instead of by assignment
SetDetect_toggle(w, v) ==
    IF BitsDetect(w) = 1 THEN w - DetectShift ELSE w + DetectShift

SetDetect(w, v) == (w - BitsDetect(w) * DetectShift) + (v % (2 ^ DetectWidth)) * DetectShift

(***************************************************************************)
(* Bounds of the model and the pulse pairs it is driven with               *)
(***************************************************************************)
\* Pulse pairs accepted as data bits that the transmitter did not script
\* (a pair inserted into a running frame, a preamble sent into a running
\* frame): at most MaxGlitch of them in a behaviour.  Once the frame attempt
\* hit by the last of them is over, the transmitter only finishes the frame
\* it is sending.
MaxGlitch == 1

\* Frames the transmitter sends, as <<address, key, T>> with T the base
\* period (ticks) of the remote's data bits: 0x12345/0xA and its complement
\* 0xEDCBA/0x5.
Frames == { <<74565, 10, 200>>, <<974010, 5, 300>> }

\* A pulse pair is <<highTicks, lowTicks>>.
\* Preambles of the transmitter: LOW = 31 T, and the two ends of the window.
PreamblePairs == { <<200, 6200>>, <<200, 5000>>, <<200, 8000>> }

\* Logic '1': HIGH 3T + LOW 1T; logic '0': HIGH 1T + LOW 3T.
BitPair(b, T) == IF b = 1 THEN <<3 * T, T>> ELSE <<T, 3 * T>>

\* Other pairs the receiver output may show.
NoisePairs ==
    { <<320, 10000>>,   \* the documented example preamble
      <<100, 100>>,     \* total 200
      <<150, 300>>,     \* total 450
      <<151, 300>>,     \* total 451
      <<4250, 4250>>,   \* total 8500
      <<4249, 4250>>,   \* total 8499
      <<600, 400>>,     \* HIGH = 1.5 LOW
      <<599, 400>>,
      <<200, 4999>>, <<200, 8001>>,   \* just outside the preamble window
      <<2622, 1000>>,   \* 25 * 2622 = 65550 wraps to 14
      <<65000, 1000>> } \* total 66000 wraps to 464

\* Data bits of a transmitted frame: [20-bit Address][4-bit Key].
TxLen == AddressWidth + KeysWidth

\* i-th transmitted bit (i = 0 first), most significant bit first.
TxBit(f, i) ==
    IF i < AddressWidth
    THEN (f[1] \div 2 ^ (AddressWidth - 1 - i)) % 2
    ELSE (f[2] \div 2 ^ (TxLen - 1 - i)) % 2

VARIABLES
    bitIndex,      \* DecoderState: -1 awaiting preamble, 0..23 next bit slot
    accumulator,   \* DecoderState: the 24-bit value under construction
    remote,        \* DecodedFrame: rawValue of the ev1527_T result
    txFrame,       \* transmitter: frame being sent
    txPos,         \* transmitter: next bit to send, 24 when done
    glitches,      \* unscripted pairs accepted as data bits so far
    fed,           \* scripted pairs fed in sequence: 1 preamble, 25 all bits
    fedSeeking,    \* the decoder was in SEEKING_PREAMBLE when it was fed
    run,           \* pairs accepted by the decoder for the frame in progress
    runOk,         \* all of them had 450 < high + low < 8500
    fedAbort,      \* an out-of-range pair cut a frame short right before it
    last,          \* last event: op, pair, decoder was COLLECTING_BITS
    pc,            \* consumer: next step of the usage example
    gotAddress,    \* consumer: remote.Bits.Address as it read it
    gotKeys,       \* consumer: remote.Bits.Keys as it read it
    lost,          \* data bits of the frame overwritten while Detect = 1, or -1
    stale          \* a frame was written after the consumer's address read

\* the consumer of the usage example and what the mailbox did to it
cvars == <<pc, gotAddress, gotKeys, lost, stale>>

vars == <<bitIndex, accumulator, remote, txFrame, txPos, glitches,
          fed, fedSeeking, fedAbort, run, runOk, last, cvars>>

\* exact predicates on a pulse pair, no wrap-around
InRange(h, l) == h + l > HPL_min /\ h + l < HPL_Max

PreambleRatio(h, l) == 25 * h <= l /\ l <= 40 * h

Event(op, h, l) == [op |-> op, h |-> h, l |-> l, col |-> bitIndex >= 0]

Init ==
    /\ bitIndex = -1
    /\ accumulator = 0
    /\ remote = 0
    /\ txFrame \in Frames
    /\ txPos = TxLen
    /\ glitches = 0
    /\ fed = 0
    /\ fedSeeking = FALSE
    /\ run = 0
    /\ runOk = FALSE
    /\ fedAbort = FALSE
    /\ last = [op |-> "init", h |-> 0, l |-> 0, col |-> FALSE]
    /\ pc = "test"
    /\ gotAddress = 0
    /\ gotKeys = 0
    /\ lost = -1
    /\ stale = FALSE

(***************************************************************************)
(* onPulsePair(highTicks, lowTicks): one completed HIGH+LOW pulse pair.    *)
(***************************************************************************)
Completes(h, l) ==
    /\ bitIndex = EV_maxIndexData
    /\ EV_pulseIsValid(l, h)

Stored(h, l) == bitIndex >= 0 /\ EV_pulseIsValid(l, h)

onPulsePair(h, l) ==
    IF ~EV_pulseIsValid(l, h)
    THEN \* out of range: back to SEEKING_PREAMBLE, the bits collected are dropped
         /\ bitIndex' = -1
         /\ accumulator' = 0
         /\ UNCHANGED remote
    ELSE IF bitIndex < 0
    THEN \* SEEKING_PREAMBLE
         IF EV_PrembleCheck(l, h)
         THEN /\ bitIndex' = 0
              /\ accumulator' = 0
              /\ UNCHANGED remote
         ELSE UNCHANGED <<bitIndex, accumulator, remote>>
    ELSE \* COLLECTING_BITS
         LET acc == (2 * accumulator + EV_bitCheck(l, h)) % (2 ^ (EV_maxIndexData + 1))
         IN  IF bitIndex + 1 > EV_maxIndexData
             THEN \* 24 bits: top 20 -> address, bottom 4 -> key, detected
                  /\ remote' = SetDetect(
                                 SetKeys(
                                   SetAddress(remote, acc \div 2 ^ KeysWidth),
                                   acc % 2 ^ KeysWidth),
                                 1)
                  /\ bitIndex' = -1
                  /\ accumulator' = 0
             ELSE /\ bitIndex' = bitIndex + 1
                  /\ accumulator' = acc
                  /\ UNCHANGED remote

\* bookkeeping of the frame in progress, for the properties below
Track(h, l) ==
    /\ run' = IF ~EV_pulseIsValid(l, h) THEN 0
              ELSE IF bitIndex < 0
                   THEN (IF EV_PrembleCheck(l, h) THEN 1 ELSE 0)
                   ELSE run + 1
    /\ runOk' = IF ~EV_pulseIsValid(l, h) THEN FALSE
                ELSE IF bitIndex < 0
                     THEN EV_PrembleCheck(l, h) /\ InRange(h, l)
                     ELSE runOk /\ InRange(h, l)

(***************************************************************************)
(* Events                                                                  *)
(***************************************************************************)
\* initialize(): ev1527_Init
Initialize ==
    /\ bitIndex' = -1
    /\ accumulator' = 0
    /\ remote' = SetDetect(remote, 0)
    /\ fed' = 0
    /\ run' = 0
    /\ runOk' = FALSE
    /\ fedSeeking' = FALSE
    /\ fedAbort' = FALSE
    /\ last' = Event("init", 0, 0)
    /\ UNCHANGED <<txFrame, txPos, glitches>>

\* clearDetected(): remote.Bits.Detect = 0 in the consumer
ClearDetected ==
    /\ remote' = SetDetect(remote, 0)
    /\ last' = Event("clear", 0, 0)
    /\ UNCHANGED <<bitIndex, accumulator, txFrame, txPos, glitches,
                   fed, fedSeeking, fedAbort, run, runOk>>

\* an unscripted pair that is stored as a data bit uses up the budget
Spent == glitches > 0 /\ glitches >= MaxGlitch /\ bitIndex < 0

Budget(h, l, scripted) ==
    IF scripted
    THEN UNCHANGED glitches
    ELSE /\ ~Spent
         /\ IF Stored(h, l)
            THEN glitches < MaxGlitch /\ glitches' = glitches + 1
            ELSE UNCHANGED glitches

\* the transmitter starts a frame: the preamble pair
SendPreamble ==
    \E p \in PreamblePairs, f \in Frames :
        /\ Budget(p[1], p[2], FALSE)
        /\ onPulsePair(p[1], p[2])
        /\ Track(p[1], p[2])
        /\ txFrame' = f
        /\ txPos' = 0
        /\ fed' = 1
        /\ fedSeeking' = (bitIndex < 0)
        /\ fedAbort' = /\ last.op = "noise"
                       /\ last.col
                       /\ ~InRange(last.h, last.l)
                       /\ bitIndex < 0
        /\ last' = Event("preamble", p[1], p[2])

\* the transmitter sends the next data bit of its frame
SendBit ==
    LET p == BitPair(TxBit(txFrame, txPos), txFrame[3])
    IN  /\ txPos < TxLen
        /\ Budget(p[1], p[2], TRUE)
        /\ onPulsePair(p[1], p[2])
        /\ Track(p[1], p[2])
        /\ txPos' = txPos + 1
        /\ fed' = IF fed >= 1 THEN fed + 1 ELSE 0
        /\ last' = Event("bit", p[1], p[2])
        /\ UNCHANGED <<txFrame, fedSeeking, fedAbort>>

\* any other pair on the receiver output
Noise ==
    \E p \in NoisePairs :
        /\ Budget(p[1], p[2], FALSE)
        /\ onPulsePair(p[1], p[2])
        /\ Track(p[1], p[2])
        /\ fed' = 0
        /\ fedSeeking' = FALSE
        /\ fedAbort' = FALSE
        /\ last' = Event("noise", p[1], p[2])
        /\ UNCHANGED <<txFrame, txPos>>

\* The consumer takes part only as clearDetected(), in one step.
Next ==
    \/ Initialize /\ UNCHANGED cvars
    \/ ClearDetected /\ UNCHANGED cvars
    \/ SendPreamble /\ UNCHANGED cvars
    \/ SendBit /\ UNCHANGED cvars
    \/ Noise /\ UNCHANGED cvars

Spec == Init /\ [][Next]_vars

TypeOK ==
    /\ bitIndex \in -1 .. EV_maxIndexData
    /\ accumulator \in 0 .. 2 ^ (EV_maxIndexData + 1) - 1
    /\ remote \in 0 .. ReserveShift - 1
    /\ txFrame \in Frames
    /\ txPos \in 0 .. TxLen
    /\ glitches \in 0 .. MaxGlitch
    /\ fed \in 0 .. 25
    /\ run \in 0 .. 25

(***************************************************************************)
(* Properties                                                              *)
(***************************************************************************)
PulseOps == { "preamble", "bit", "noise" }

\* the bit a pair stands for: 1 when HIGH >= 1.5 LOW
ExactBit(h, l) == IF 2 * h >= 3 * l THEN 1 ELSE 0

\* the result holds the frame the transmitter is sending, flagged detected
Decoded(w, f) ==
    /\ BitsDetect(w) = 1
    /\ BitsAddress(w) = f[1]
    /\ BitsKeys(w) = f[2]

\* the 24 data bits of the result, address first
FrameBits(w) == BitsAddress(w) * 2 ^ KeysWidth + BitsKeys(w)

\* The transmitter's pairs are what the claims call valid: every preamble is
\* in range with LOW within 25..40 times HIGH, every data bit is in range.
ScriptIsValid ==
    /\ \A p \in PreamblePairs : InRange(p[1], p[2]) /\ PreambleRatio(p[1], p[2])
    /\ \A f \in Frames : \A b \in {0, 1} :
          LET p == BitPair(b, f[3])
          IN  InRange(p[1], p[2]) /\ ExactBit(p[1], p[2]) = b

\* C1: a valid preamble fed while SEEKING_PREAMBLE followed by the 24 valid
\* bit pairs of address A then key K (most significant bit first) ends with
\* detected = true, address = A and key = K.
C1_EndToEnd ==
    /\ ScriptIsValid
    /\ (fed = 25 /\ fedSeeking /\ last.op = "bit") => Decoded(remote, txFrame)

C1_Witness ==
    /\ fed = 25 /\ fedSeeking /\ last.op = "bit"
    /\ txFrame[1] = 74565 /\ txFrame[2] = 10
    /\ BitsDetect(remote) = 1
    /\ BitsAddress(remote) = 74565
    /\ BitsKeys(remote) = 10

\* C2: detected goes from false to true only in an onPulsePair step that
\* stores the 24th bit of a frame whose preamble pair and 24 bit pairs all
\* had 450 < high + low < 8500, one after the other with no reset between,
\* and that step writes address and key.
C2_DetectOnlyOnValidFrame ==
    [][ (BitsDetect(remote) = 0 /\ BitsDetect(remote') = 1) =>
          /\ last'.op \in PulseOps
          /\ bitIndex = EV_maxIndexData
          /\ run' = 25
          /\ runOk'
          /\ FrameBits(remote') = 2 * accumulator + ExactBit(last'.h, last'.l)
      ]_vars

\* C3: a pair with high + low <= 450 or high + low >= 8500 leaves the decoder
\* in SEEKING_PREAMBLE and the result unchanged, whatever state it arrives in.
C3_OutOfRangeResets ==
    [][ (last'.op \in PulseOps /\ ~InRange(last'.h, last'.l)) =>
          /\ bitIndex' = -1
          /\ remote' = remote
      ]_vars

\* C4 as stated: a pair with 25 high <= low <= 40 high and a valid total
\* leaves the decoder in COLLECTING_BITS with bitIndex = 0, whatever state it
\* arrives in.
C4_PreambleAnyState ==
    [][ ( /\ last'.op \in PulseOps
          /\ InRange(last'.h, last'.l)
          /\ PreambleRatio(last'.h, last'.l) ) =>
          bitIndex' = 0
      ]_vars

\* C4 amended: a pair with 25 high <= low <= 40 high and a valid total that
\* arrives while the decoder is in SEEKING_PREAMBLE leaves it in
\* COLLECTING_BITS with bitIndex = 0 and a cleared accumulator.
C4_PreambleWhileSeeking ==
    [][ ( /\ last'.op \in PulseOps
          /\ bitIndex < 0
          /\ InRange(last'.h, last'.l)
          /\ PreambleRatio(last'.h, last'.l) ) =>
          /\ bitIndex' = 0
          /\ accumulator' = 0
          /\ remote' = remote
      ]_vars

\* the 25-times end of the window, accepted while seeking
C4_Witness ==
    /\ last.op = "preamble" /\ ~last.col
    /\ last.h = 200 /\ last.l = 5000
    /\ bitIndex = 0

\* C5: the documented example preamble LOW = 10000, HIGH = 320, fed while
\* the decoder is in SEEKING_PREAMBLE, moves it to COLLECTING_BITS.
C5_ExamplePreamble ==
    [][ ( /\ last'.op \in PulseOps
          /\ last'.h = 320 /\ last'.l = 10000
          /\ bitIndex < 0 ) =>
          bitIndex' = 0
      ]_vars

\* C6: while COLLECTING_BITS a valid pair stores the bit 1 exactly when
\* high >= 1.5 low (900/300 gives 1, 300/900 gives 0) as the newest bit, and
\* the bit count goes up by one: bitIndex + 1 below the 24th bit, a complete
\* frame of the 24 bits at the 24th.
C6_BitDecode ==
    [][ ( /\ last'.op \in PulseOps
          /\ bitIndex >= 0
          /\ InRange(last'.h, last'.l) ) =>
          LET b == ExactBit(last'.h, last'.l)
          IN  /\ (last'.h = 900 /\ last'.l = 300) => b = 1
              /\ (last'.h = 300 /\ last'.l = 900) => b = 0
              /\ IF bitIndex < EV_maxIndexData
                 THEN /\ bitIndex' = bitIndex + 1
                      /\ accumulator' = 2 * accumulator + b
                      /\ remote' = remote
                 ELSE /\ bitIndex' = -1
                      /\ BitsDetect(remote') = 1
                      /\ FrameBits(remote') = 2 * accumulator + b
      ]_vars

\* HIGH = 1.5 LOW stored as a 1
C6_Witness ==
    /\ last.op = "noise" /\ last.col
    /\ last.h = 600 /\ last.l = 400
    /\ bitIndex > 0
    /\ accumulator % 2 = 1

\* C7: an out-of-range pair that hits a frame in progress returns the decoder
\* to SEEKING_PREAMBLE with detected unchanged, and the valid preamble and 24
\* valid bit pairs fed next decode to exactly that frame.
C7_Interruption ==
    [][ /\ ( /\ last'.op \in PulseOps
             /\ bitIndex >= 0
             /\ ~InRange(last'.h, last'.l) ) =>
             /\ bitIndex' = -1
             /\ BitsDetect(remote') = BitsDetect(remote)
        /\ (fedAbort /\ fed' = 25 /\ last'.op = "bit") =>
             Decoded(remote', txFrame)
      ]_vars

\* C8 as stated: from every reachable state, COLLECTING_BITS included, a
\* valid preamble followed by the 24 valid bit pairs of (A, K) ends with
\* detected = true, address = A and key = K.
C8_ReadyInAnyState ==
    (fed = 25 /\ last.op = "bit") => Decoded(remote, txFrame)

\* C8 amended: from every reachable state in SEEKING_PREAMBLE, whatever came
\* before, a valid preamble followed by the 24 valid bit pairs of (A, K) ends
\* with detected = true, address = A and key = K; a frame attempt in
\* COLLECTING_BITS holds at most 23 bits, one per pair accepted for it, so it
\* ends with the 24th accepted pair at the latest.
C8_ReadyWhenSeeking ==
    /\ (fed = 25 /\ fedSeeking /\ last.op = "bit") =>
          /\ Decoded(remote, txFrame)
          /\ bitIndex = -1
    /\ bitIndex >= 0 => run = bitIndex + 1 /\ run <= EV_maxIndexData + 1

\* a frame decoded right after an out-of-range pair cut the previous one short
C8_Witness ==
    /\ fed = 25 /\ fedSeeking /\ fedAbort /\ last.op = "bit"
    /\ Decoded(remote, txFrame)

C10_OnlyConsumerClears ==
    [][ /\ (BitsDetect(remote) = 1 /\ BitsDetect(remote') = 0) =>
             last'.op \in { "clear", "init" }
        /\ (last'.op \in PulseOps /\ BitsDetect(remote) = 1) =>
             BitsDetect(remote') = 1
      ]_vars

\* an out-of-range pair hit a frame in progress while an earlier frame was
\* still flagged, and the flag is still set
C10_Witness ==
    /\ BitsDetect(remote) = 1
    /\ last.op = "noise" /\ last.col
    /\ ~InRange(last.h, last.l)
    /\ bitIndex = -1

\* C11: initialize() in any state leaves bitIndex = -1, a cleared accumulator
\* and detected = false; the frame in progress never holds a bit from before
\* it: the accumulator holds one bit per pair accepted since the last preamble
\* (none above bitIndex), and a frame is written only by the 25th pair accepted
\* after it.
C11_InitializeResets ==
    [][ /\ last'.op = "init" =>
             /\ bitIndex' = -1
             /\ accumulator' = 0
             /\ BitsDetect(remote') = 0
             /\ FrameBits(remote') = FrameBits(remote)
             /\ run' = 0
        /\ bitIndex' >= 0 =>
             /\ accumulator' < 2 ^ bitIndex'
             /\ run' = bitIndex' + 1
        /\ (last'.op \in PulseOps /\ Completes(last'.h, last'.l)) =>
             /\ run' = 25
             /\ accumulator < 2 ^ EV_maxIndexData
             /\ FrameBits(remote') = 2 * accumulator + ExactBit(last'.h, last'.l)
      ]_vars

\* initialize() hit a frame in progress while a decoded frame was in the result
C11_Witness ==
    /\ last.op = "init" /\ last.col
    /\ bitIndex = -1
    /\ accumulator = 0
    /\ BitsDetect(remote) = 0
    /\ BitsAddress(remote) = 74565

\* C13: while the decoder is in SEEKING_PREAMBLE, a pair with a valid total
\* and low < 25 high or low > 40 high changes neither the DecoderState
\* (bitIndex, accumulator) nor the DecodedFrame.
C13_MismatchNoOp ==
    [][ ( /\ last'.op \in PulseOps
          /\ bitIndex < 0
          /\ InRange(last'.h, last'.l)
          /\ ~PreambleRatio(last'.h, last'.l) ) =>
          UNCHANGED <<bitIndex, accumulator, remote>>
      ]_vars

\* C14: after every event bitIndex is in -1..23 (-1 is SEEKING_PREAMBLE, 0..23
\* COLLECTING_BITS with that many bits stored, one per pair accepted after
\* the preamble), the accumulator is below 2^24 and, while COLLECTING_BITS,
\* has no bit set at position bitIndex or above.
C14_StateRanges ==
    /\ bitIndex \in -1 .. 23
    /\ accumulator \in 0 .. 2 ^ 24 - 1
    /\ bitIndex >= 0 => accumulator < 2 ^ bitIndex
    /\ bitIndex >= 0 => run = bitIndex + 1

\* 23 bits stored, the first of them a 1
C14_Witness ==
    /\ bitIndex = 23
    /\ accumulator >= 2 ^ 22
    /\ last.op = "bit"

\* the 24 data bits of the result as they lie in the 32-bit word
DataBits(w) == w % DetectShift

\* C15 as stated: in the word of a decoded frame the key is the low 4 bits and
\* the address the high 20 bits of the 24 data bits, so the data bits of the
\* word are the 24-bit accumulator that was split.
C15_KeyInLowBits ==
    [][ (last'.op \in PulseOps /\ Completes(last'.h, last'.l)) =>
          LET acc == 2 * accumulator + ExactBit(last'.h, last'.l)
          IN  /\ DataBits(remote') % 2 ^ KeysWidth = BitsKeys(remote')
              /\ DataBits(remote') \div 2 ^ KeysWidth = BitsAddress(remote')
              /\ DataBits(remote') = acc
      ]_vars

\* C15 amended: the accumulator split as top 20 bits -> address, bottom 4
\* bits -> key and written to the fields reads back as that address and key;
\* in the word the address is the low 20 bits (0..19), the key the next 4
\* (20..23) and Detect bit 24.
C15_FieldLayout ==
    [][ (last'.op \in PulseOps /\ Completes(last'.h, last'.l)) =>
          LET acc == 2 * accumulator + ExactBit(last'.h, last'.l)
          IN  /\ BitsAddress(remote') = acc \div 2 ^ 4
              /\ BitsKeys(remote') = acc % 2 ^ 4
              /\ DataBits(remote') % 2 ^ 20 = acc \div 2 ^ 4
              /\ DataBits(remote') \div 2 ^ 20 = acc % 2 ^ 4
              /\ remote' \div 2 ^ 24 = 1
      ]_vars

\* 0x12345/0xA decoded: the word is 0x1A12345
C15_Witness ==
    /\ last.op = "bit" /\ last.col /\ fed = 25
    /\ remote = 2 ^ 24 + 10 * 2 ^ 20 + 74565
    /\ BitsAddress(remote) = 74565
    /\ BitsKeys(remote) = 10

\* C16: the step that writes a frame leaves the decoder in SEEKING_PREAMBLE
\* and is the 25th pair accepted in a row: a pair with 25 high <= low <= 40
\* high accepted while seeking, then 24 bit pairs with 450 < high + low <
\* 8500; a pair that arrives in SEEKING_PREAMBLE, as the one after a completed
\* frame does, is never stored as a data bit.
C16_OwnPreamble ==
    [][ last'.op \in PulseOps =>
          /\ remote' # remote => Completes(last'.h, last'.l)
          /\ Completes(last'.h, last'.l) =>
                /\ bitIndex' = -1
                /\ run' = 25
                /\ runOk'
          /\ bitIndex < 0 =>
                /\ bitIndex' \in { -1, 0 }
                /\ accumulator' = 0
                /\ remote' = remote
                /\ bitIndex' = 0 =>
                      /\ run' = 1
                      /\ InRange(last'.h, last'.l)
                      /\ PreambleRatio(last'.h, last'.l)
      ]_vars

\* C17: for every pair (h, l) of 16-bit tick values the handler is called
\* with, EV_pulseIsValid in 16-bit arithmetic answers as 450 < h + l < 8500
\* and EV_PrembleCheck as 25 h <= l <= 40 h.
C17_MacrosExact ==
    last.op \in PulseOps =>
        /\ last.h \in 0 .. TickModulus - 1
        /\ last.l \in 0 .. TickModulus - 1
        /\ EV_pulseIsValid(last.l, last.h) <=> InRange(last.h, last.l)
        /\ EV_PrembleCheck(last.l, last.h) <=> PreambleRatio(last.h, last.l)

(***************************************************************************)
(* The usage example of the header, step by step:                          *)
(*     if (remote.Bits.Detect) {                                           *)
(*         uint32_t address = remote.Bits.Address;                         *)
(*         uint8_t key = remote.Bits.Keys;                                 *)
(*         remote.Bits.Detect = 0;                                         *)
(*     }                                                                   *)
(* The handler runs in the edge interrupt, so its onPulsePair events come  *)
(* between any two of the steps.  The transmitter sends whole frames, one  *)
(* after the other: a preamble while the decoder is seeking, then its bits.*)
(***************************************************************************)
\* what an onPulsePair(h, l) step does to the mailbox as the consumer sees it
Mailbox(h, l) ==
    /\ lost' = IF Completes(h, l) /\ BitsDetect(remote) = 1
               THEN FrameBits(remote)
               ELSE lost
    /\ stale' = (stale \/ (Completes(h, l) /\ pc \in { "keys", "clear" }))
    /\ UNCHANGED <<pc, gotAddress, gotKeys>>

FramePreamble ==
    /\ bitIndex < 0
    /\ SendPreamble
    /\ UNCHANGED cvars

FrameBit ==
    /\ SendBit
    /\ LET p == BitPair(TxBit(txFrame, txPos), txFrame[3])
       IN  Mailbox(p[1], p[2])

\* if (remote.Bits.Detect)
TestDetect ==
    /\ pc = "test"
    /\ BitsDetect(remote) = 1
    /\ pc' = "address"
    /\ stale' = FALSE
    /\ UNCHANGED <<bitIndex, accumulator, remote, txFrame, txPos, glitches,
                   fed, fedSeeking, fedAbort, run, runOk, last,
                   gotAddress, gotKeys, lost>>

\* address = remote.Bits.Address
ReadAddress ==
    /\ pc = "address"
    /\ gotAddress' = BitsAddress(remote)
    /\ pc' = "keys"
    /\ UNCHANGED <<bitIndex, accumulator, remote, txFrame, txPos, glitches,
                   fed, fedSeeking, fedAbort, run, runOk, last,
                   gotKeys, lost, stale>>

\* key = remote.Bits.Keys
ReadKeys ==
    /\ pc = "keys"
    /\ gotKeys' = BitsKeys(remote)
    /\ pc' = "clear"
    /\ UNCHANGED <<bitIndex, accumulator, remote, txFrame, txPos, glitches,
                   fed, fedSeeking, fedAbort, run, runOk, last,
                   gotAddress, lost, stale>>

\* remote.Bits.Detect = 0, the end of the block
ClearFlag ==
    /\ pc = "clear"
    /\ ClearDetected
    /\ pc' = "test"
    /\ gotAddress' = 0
    /\ gotKeys' = 0
    /\ lost' = -1
    /\ stale' = FALSE

NextUsage ==
    \/ FramePreamble
    \/ FrameBit
    \/ TestDetect
    \/ ReadAddress
    \/ ReadKeys
    \/ ClearFlag

SpecUsage == Init /\ [][NextUsage]_vars

\* C12: a second valid frame decoded while detected is still true leaves the
\* second frame's address and key in the result with detected = true: the
\* word is the one the same frame gives in an empty result, nothing in it
\* tells that the first frame was there.
C12_LastWriteWins ==
    [][ ( /\ last'.op = "bit"
          /\ fed = 24 /\ fed' = 25
          /\ fedSeeking
          /\ BitsDetect(remote) = 1 ) =>
          /\ Decoded(remote', txFrame)
          /\ remote' = txFrame[1] + txFrame[2] * KeysShift + DetectShift
          /\ lost' = FrameBits(remote)
      ]_vars

\* frame 0x12345/0xA was overwritten unread by frame 0xEDCBA/0x5
C12_Witness ==
    /\ last.op = "bit" /\ fed = 25 /\ fedSeeking
    /\ pc = "test"
    /\ lost = 74565 * 2 ^ KeysWidth + 10
    /\ BitsDetect(remote) = 1
    /\ BitsAddress(remote) = 974010
    /\ BitsKeys(remote) = 5

\* C18: once the consumer has tested Detect and read Address and Keys, the
\* address and the key it holds are those of one and the same frame.
C18_NoTornRead ==
    pc = "clear" =>
        \E f \in Frames : gotAddress = f[1] /\ gotKeys = f[2]

\* C19: when the consumer's clear sets detected to false, the address and the
\* key it read are those of the frame written last: no frame was written
\* after its address read.
C19_NoUnreadCleared ==
    [][ (pc = "clear" /\ pc' = "test") =>
          /\ BitsDetect(remote') = 0
          /\ gotAddress = BitsAddress(remote)
          /\ gotKeys = BitsKeys(remote)
          /\ ~stale
      ]_vars

=============================================================================
